---- MODULE Spec2Model ----
(***************************************************************************)
(* Model of the ADA voice assistant core:                                  *)
(*   - the keyword router of src/ada/main.py                               *)
(*     (get_simple_keyword_ai_agent_router, get_first_keyword_in_prompt);  *)
(*   - the utterance state machine of src/ada/modules/voice_recorder.py    *)
(*     (VoiceRecorder.process_result, start_interaction,                   *)
(*      stop_interaction, process_command).                                *)
(* Python strings are sequences of one-character strings, so that          *)
(* substring containment, lower-casing, splitting and concatenation are    *)
(* computed character by character.                                        *)
(***************************************************************************)
EXTENDS Integers, Sequences, FiniteSets, TLC

VARIABLES
    \* ---- main.py ----
    pc,                     \* position of the routing call under test
    prompt,                 \* argument of get_first_keyword_in_prompt
    agent_to_run,           \* first component of its result
    agent_keyword,          \* second component of its result
    configuration,          \* module global `configuration`
    ITERATION_START_TIME,   \* module global `ITERATION_START_TIME`
    last_op,                \* name of the operation that made the last step
    memo_set,               \* an earlier routing call has been remembered
    memo_prompt,            \* ... its argument
    memo_agent,             \* ... its result
    \* ---- voice_recorder.py ----
    recording,              \* self.recording
    interaction_transcript, \* self.interaction_transcript
    transcript,             \* argument of the last process_result call
    continue_listening,     \* value returned by the last process_result call
    listening,              \* continuous_listen has not left its loop
    processed,              \* arguments of the process_command calls of the last step
    n_process_command,      \* number of process_command calls so far
    n_rec_to_idle,          \* number of steps that went from recording to not recording
    was_recording,          \* self.recording when the last process_result call began
    was_transcript,         \* self.interaction_transcript when it began
    between,                \* fragments received after the activation fragment
    \* ---- main.py: startup and personal_ai_assistant_loop ----
    lpc,                    \* position of the process in startup and in the loop
    iteration,              \* number of the loop iteration (chunk) in progress
    audio_active,           \* the sound device is recording (sd.rec .. sd.wait)
    files,                  \* iterations whose temporary audio file exists
    chunk_transcript,       \* the local `transcript` of the loop
    transcribe_failed,      \* the transcription of this iteration raised
    handler_running,        \* the handler being executed, None when there is none
    handler_calls,          \* handler calls of this iteration: [agent, argument]
    handler_raised,         \* the handler of this iteration raised an exception
    steps,                  \* steps of this iteration, in the order they happened
    config_file,            \* contents of CONFIG_FILE
    config_file_at_start,   \* contents of CONFIG_FILE when the process started
    edited,                 \* text the user left in the editor in the configure workflow
    \* ---- voice_recorder.py: the frame queue ----
    q,                      \* self.q
    pushed,                 \* number of frames the audio callback has put
    consumed,               \* frames the consumer loop has got, in order
    data                    \* the frame held in the local `data` of continuous_listen: <<>> or <<frame>>

main_vars == <<pc, prompt, agent_to_run, agent_keyword, configuration,
               ITERATION_START_TIME, last_op, memo_set, memo_prompt, memo_agent>>

vr_vars == <<recording, interaction_transcript, transcript, continue_listening,
             listening, processed, n_process_command, n_rec_to_idle,
             was_recording, was_transcript, between>>

loop_vars == <<lpc, iteration, audio_active, files, chunk_transcript,
               transcribe_failed, handler_running, handler_calls, handler_raised,
               steps, config_file, config_file_at_start, edited>>

stream_vars == <<q, pushed, consumed, data>>

vars == <<main_vars, vr_vars, loop_vars, stream_vars>>

----------------------------------------------------------------------------
(* Bounds *)

MaxPieces == 2          \* pieces concatenated into a routed text
MaxPurePieces == 2      \* pieces concatenated into a text routed repeatedly
MaxPhrases == 2         \* key phrases joined into one recognised fragment
MaxBuffered == 3        \* fragments held in the interaction buffer
MaxInteractions == 2    \* completed interactions in one run
MaxLoopPieces == 3      \* pieces concatenated into a chunk transcript
MaxIterations == 2      \* iterations of personal_ai_assistant_loop in one run
MaxFrames == 5          \* audio frames put on the queue in one run

----------------------------------------------------------------------------
(* Python str operations *)

Lowers == <<"a","b","c","d","e","f","g","h","i","j","k","l","m",
            "n","o","p","q","r","s","t","u","v","w","x","y","z">>
Uppers == <<"A","B","C","D","E","F","G","H","I","J","K","L","M",
            "N","O","P","Q","R","S","T","U","V","W","X","Y","Z">>

\* str.lower() and str.upper() on the letters: tables from each letter to its
\* other-case letter
LowerOf == [c \in {Uppers[i] : i \in 1..26} |->
               Lowers[CHOOSE i \in 1..26 : Uppers[i] = c]]
UpperOf == [c \in {Lowers[i] : i \in 1..26} |->
               Uppers[CHOOSE i \in 1..26 : Lowers[i] = c]]

\* one character of str.lower(): an upper-case letter maps to its lower-case
\* letter, every other character to itself
lower_char(c) == IF c \in DOMAIN LowerOf THEN LowerOf[c] ELSE c

\* one character of str.upper(), used to build mixed-case inputs
upper_char(c) == IF c \in DOMAIN UpperOf THEN UpperOf[c] ELSE c

\* s.lower()
str_lower(s) == [i \in 1..Len(s) |-> lower_char(s[i])]

\* `sub in s` on Python strings: sub occurs as a contiguous run of s
str_in(sub, s) ==
    \E i \in 0..(Len(s) - Len(sub)) : SubSeq(s, i + 1, i + Len(sub)) = sub

\* s.split(sep) for a one-character separator
RECURSIVE str_split(_, _)
str_split(s, sep) ==
    IF \A i \in 1..Len(s) : s[i] # sep
    THEN <<s>>
    ELSE LET k == CHOOSE i \in 1..Len(s) :
                      s[i] = sep /\ \A j \in 1..(i - 1) : s[j] # sep
         IN  <<SubSeq(s, 1, k - 1)>> \o str_split(SubSeq(s, k + 1, Len(s)), sep)

\* s.find(sub): 0-based index of the first occurrence, -1 when there is none
str_find(s, sub) ==
    IF str_in(sub, s)
    THEN CHOOSE i \in 0..(Len(s) - Len(sub)) :
             /\ SubSeq(s, i + 1, i + Len(sub)) = sub
             /\ \A j \in 0..(i - 1) : SubSeq(s, j + 1, j + Len(sub)) # sub
    ELSE -1

----------------------------------------------------------------------------
(* main.py: the keyword router *)

None == "None"
NoKeyword == <<>>       \* the None keyword of the (None, None) result

\* variant of the table with the greeting group declared before the question
\* group
router_greeting_before_question == <<
    [keyword_group |-> <<"c","o","n","f","i","g","u","r","e",",",
                         "c","o","n","f","i","g","u","r","a","t","i","o","n">>,
     agent |-> "configure_assistant_workflow"],
    [keyword_group |-> <<"e","x","a","m","p","l","e"," ","c","o","d","e">>,
     agent |-> "example_code_workflow"],
    [keyword_group |-> <<"v","i","e","w"," ","c","o","m","p","o","n","e","n","t">>,
     agent |-> "image_to_vue_component_workflow"],
    [keyword_group |-> <<"b","a","s","h",",","b","r","o","w","s","e","r">>,
     agent |-> "run_bash_command_workflow"],
    [keyword_group |-> <<"s","h","e","l","l">>,
     agent |-> "shell_command_workflow"],
    [keyword_group |-> <<"h","e","l","l","o",",","h","e","y",",","h","i">>,
     agent |-> "soft_talk_workflow"],
    [keyword_group |-> <<"q","u","e","s","t","i","o","n">>,
     agent |-> "question_answer_workflow"],
    [keyword_group |-> <<"e","x","i","t">>,
     agent |-> "end_conversation_workflow"] >>

\* the dict literal returned by get_simple_keyword_ai_agent_router, in
\* insertion order (the order dict.items() iterates in)
get_simple_keyword_ai_agent_router == <<
    [keyword_group |-> <<"c","o","n","f","i","g","u","r","e",",",
                         "c","o","n","f","i","g","u","r","a","t","i","o","n">>,
     agent |-> "configure_assistant_workflow"],
    [keyword_group |-> <<"e","x","a","m","p","l","e"," ","c","o","d","e">>,
     agent |-> "example_code_workflow"],
    [keyword_group |-> <<"v","i","e","w"," ","c","o","m","p","o","n","e","n","t">>,
     agent |-> "image_to_vue_component_workflow"],
    [keyword_group |-> <<"b","a","s","h",",","b","r","o","w","s","e","r">>,
     agent |-> "run_bash_command_workflow"],
    [keyword_group |-> <<"s","h","e","l","l">>,
     agent |-> "shell_command_workflow"],
    [keyword_group |-> <<"q","u","e","s","t","i","o","n">>,
     agent |-> "question_answer_workflow"],
    [keyword_group |-> <<"h","e","l","l","o",",","h","e","y",",","h","i">>,
     agent |-> "soft_talk_workflow"],
    [keyword_group |-> <<"e","x","i","t">>,
     agent |-> "end_conversation_workflow"] >>

\* variant of the inner loop that tests the prompt as given, without lower()
RECURSIVE first_keyword_from_no_lower(_, _, _)
first_keyword_from_no_lower(keywords, j, p) ==
    IF j > Len(keywords) THEN NoKeyword
    ELSE IF str_in(keywords[j], p) THEN keywords[j]
    ELSE first_keyword_from_no_lower(keywords, j + 1, p)

\* the inner loop `for keyword in keywords`: the first keyword, from index j
\* on, that is in prompt.lower(); NoKeyword when the loop runs out
RECURSIVE first_keyword_from(_, _, _)
first_keyword_from(keywords, j, p) ==
    IF j > Len(keywords) THEN NoKeyword
    ELSE LET lowered == str_lower(p)
         IN  IF str_in(keywords[j], lowered) THEN keywords[j]
             ELSE first_keyword_from(keywords, j + 1, p)

\* variant of the outer loop that keeps scanning and returns the last matching
\* group
RECURSIVE first_group_from_last(_, _, _)
first_group_from_last(map_keywords_to_agents, g, p) ==
    IF g > Len(map_keywords_to_agents)
    THEN [agent |-> None, keyword |-> NoKeyword]
    ELSE LET later    == first_group_from_last(map_keywords_to_agents, g + 1, p)
             keywords == str_split(map_keywords_to_agents[g].keyword_group, ",")
             keyword  == first_keyword_from(keywords, 1, p)
         IN  IF later.agent # None THEN later
             ELSE IF keyword # NoKeyword
             THEN [agent |-> map_keywords_to_agents[g].agent, keyword |-> keyword]
             ELSE later

\* the outer loop `for keyword_group, agent in map_keywords_to_agents.items()`
RECURSIVE first_group_from(_, _, _)
first_group_from(map_keywords_to_agents, g, p) ==
    IF g > Len(map_keywords_to_agents)
    THEN [agent |-> None, keyword |-> NoKeyword]
    ELSE LET keywords == str_split(map_keywords_to_agents[g].keyword_group, ",")
             keyword  == first_keyword_from(keywords, 1, p)
         IN  IF keyword # NoKeyword
             THEN [agent |-> map_keywords_to_agents[g].agent, keyword |-> keyword]
             ELSE first_group_from(map_keywords_to_agents, g + 1, p)

\* variant of the router whose answer depends on the timing global
get_first_keyword_in_prompt_timed(p) ==
    IF ITERATION_START_TIME = None
    THEN first_group_from(get_simple_keyword_ai_agent_router, 1, p)
    ELSE [agent |-> None, keyword |-> NoKeyword]

get_first_keyword_in_prompt(p) ==
    first_group_from(get_simple_keyword_ai_agent_router, 1, p)

----------------------------------------------------------------------------
(* main.py: the globals the router could touch *)

\* the values `configuration` can hold after the module-level load
Configurations == { [working_directory |-> None],
                    [working_directory |-> "/home/ada/work"] }

\* track_interaction_time(): clears the global when it is set
track_interaction_time(t) == IF t # None THEN None ELSE t

\* record_audio(): calls track_interaction_time(), records, then stamps the
\* global with datetime.now()
record_audio(t) == "datetime"

----------------------------------------------------------------------------
(* Routed texts: concatenations of keyword alternatives and filler words,   *)
(* each in lower, upper or mixed case                                       *)

Words == {
    <<"c","o","n","f","i","g","u","r","e">>,
    <<"c","o","n","f","i","g","u","r","a","t","i","o","n">>,
    <<"e","x","a","m","p","l","e"," ","c","o","d","e">>,
    <<"v","i","e","w"," ","c","o","m","p","o","n","e","n","t">>,
    <<"b","a","s","h">>,
    <<"b","r","o","w","s","e","r">>,
    <<"s","h","e","l","l">>,
    <<"q","u","e","s","t","i","o","n">>,
    <<"h","e","l","l","o">>,
    <<"h","e","y">>,
    <<"h","i">>,
    <<"e","x","i","t">>,
    <<"h","i","s","t","o","r","y">>,
    <<"o","p","e","n">>,
    <<"e","x","a","m","p","l","e">> }

CaseModes == {"lower", "upper", "mixed"}

apply_case(w, mode) ==
    [i \in 1..Len(w) |->
        IF mode = "upper" \/ (mode = "mixed" /\ i % 2 = 1)
        THEN upper_char(w[i]) ELSE w[i]]

Pieces == {apply_case(w, m) : w \in Words, m \in CaseModes} \cup {<<" ">>}

PurePieces == { <<"h","i">>, <<"Q","u","E","s","T","i","O","n">>, <<"e","x","i","t">> }

RECURSIVE TextsFrom(_, _)
TextsFrom(pieces, n) ==
    IF n = 0 THEN {<<>>}
    ELSE LET shorter == TextsFrom(pieces, n - 1)
         IN  shorter \cup {t \o piece : t \in shorter, piece \in pieces}

Prompts == TextsFrom(Pieces, MaxPieces)
PurePrompts == TextsFrom(PurePieces, MaxPurePieces)

----------------------------------------------------------------------------
(* State of the voice recorder before VoiceRecorder is used *)

VRIdle ==
    /\ recording = FALSE
    /\ interaction_transcript = <<>>
    /\ transcript = <<>>
    /\ continue_listening = TRUE
    /\ listening = TRUE
    /\ processed = <<>>
    /\ n_process_command = 0
    /\ n_rec_to_idle = 0
    /\ was_recording = FALSE
    /\ was_transcript = <<>>
    /\ between = <<>>

\* the loop of main.py is not running
LoopIdle ==
    /\ lpc = "off"
    /\ iteration = 0
    /\ audio_active = FALSE
    /\ files = {}
    /\ chunk_transcript = <<>>
    /\ transcribe_failed = FALSE
    /\ handler_running = None
    /\ handler_calls = <<>>
    /\ handler_raised = FALSE
    /\ steps = <<>>
    /\ config_file = [kind |-> "absent", doc |-> None]
    /\ config_file_at_start = [kind |-> "absent", doc |-> None]
    /\ edited = [kind |-> "absent", doc |-> None]

\* no audio stream is open
StreamIdle ==
    /\ q = <<>>
    /\ pushed = 0
    /\ consumed = <<>>
    /\ data = <<>>

----------------------------------------------------------------------------
(* Routing one text: the call                                               *)
(*   agent_to_run, agent_keyword = get_first_keyword_in_prompt(prompt)      *)

Route(p) ==
    LET r == get_first_keyword_in_prompt(p)
    IN  /\ prompt' = p
        /\ agent_to_run' = r.agent
        /\ agent_keyword' = r.keyword
        /\ last_op' = "route"
        /\ UNCHANGED <<configuration, ITERATION_START_TIME>>

InitRoute ==
    /\ pc = "call"
    /\ prompt \in Prompts
    /\ agent_to_run = None
    /\ agent_keyword = NoKeyword
    /\ configuration = [working_directory |-> None]
    /\ ITERATION_START_TIME = None
    /\ last_op = "init"
    /\ memo_set = FALSE
    /\ memo_prompt = <<>>
    /\ memo_agent = None
    /\ VRIdle
    /\ LoopIdle
    /\ StreamIdle

RouteDrawn ==
    /\ pc = "call"
    /\ Route(prompt)
    /\ pc' = "done"
    /\ UNCHANGED <<memo_set, memo_prompt, memo_agent>>
    /\ UNCHANGED <<vr_vars, loop_vars, stream_vars>>

NextRoute == RouteDrawn

SpecRoute == InitRoute /\ [][NextRoute]_vars

----------------------------------------------------------------------------
(* Routing repeatedly, with recordings in between *)

InitPure ==
    /\ pc = "done"
    /\ prompt = <<>>
    /\ agent_to_run = None
    /\ agent_keyword = NoKeyword
    /\ configuration \in Configurations
    /\ ITERATION_START_TIME = None
    /\ last_op = "init"
    /\ memo_set = FALSE
    /\ memo_prompt = <<>>
    /\ memo_agent = None
    /\ VRIdle
    /\ LoopIdle
    /\ StreamIdle

\* a routing call; the first call of a run may be remembered
RouteAgain ==
    \E p \in PurePrompts :
        /\ Route(p)
        /\ \/ UNCHANGED <<memo_set, memo_prompt, memo_agent>>
           \/ /\ ~memo_set
              /\ ITERATION_START_TIME = None
              /\ memo_set' = TRUE
              /\ memo_prompt' = p
              /\ memo_agent' = agent_to_run'
        /\ UNCHANGED pc
        /\ UNCHANGED <<vr_vars, loop_vars, stream_vars>>

RecordAudio ==
    /\ ITERATION_START_TIME' = record_audio(track_interaction_time(ITERATION_START_TIME))
    /\ last_op' = "record_audio"
    /\ UNCHANGED <<pc, prompt, agent_to_run, agent_keyword, configuration,
                   memo_set, memo_prompt, memo_agent>>
    /\ UNCHANGED <<vr_vars, loop_vars, stream_vars>>

NextPure == RouteAgain \/ RecordAudio

SpecPure == InitPure /\ [][NextPure]_vars

----------------------------------------------------------------------------
(* voice_recorder.py: VoiceRecorder *)

\* __init__ stores each keyword lower-cased
activation_keyword == str_lower(<<"H","e","l","l","o"," ","A","d","a">>)
end_keyword == str_lower(<<"t","h","a","n","k","s">>)
stop_keyword == str_lower(<<"s","t","o","p"," ","r","e","c","o","r","d","i","n","g">>)

\* The recorder object is a record self = [recording, interaction_transcript,
\* processed]; processed lists the arguments process_command was called with.

\* process_command(transcript): prints the command; the call is logged
process_command(self, t) ==
    [self EXCEPT !.processed = Append(@, t)]

start_interaction(self) ==
    [self EXCEPT !.recording = TRUE]

\* variant of stop_interaction that resets without processing the command
stop_interaction_silent(self) ==
    [self EXCEPT !.interaction_transcript = <<>>, !.recording = FALSE]

\* variant of stop_interaction that keeps the buffer
stop_interaction_keep_buffer(self) ==
    LET called == process_command(self, self.interaction_transcript)
    IN  [called EXCEPT !.recording = FALSE]

stop_interaction(self) ==
    LET called == process_command(self, self.interaction_transcript)
    IN  [called EXCEPT !.interaction_transcript = <<>>, !.recording = FALSE]

\* variant of process_result that tests the stop keyword only while idle
process_result_stop_when_idle(self, t) ==
    LET activate == str_in(activation_keyword, t) /\ ~self.recording
        finish   == str_in(end_keyword, t) /\ self.recording
        after    == IF activate THEN start_interaction(self)
                    ELSE IF finish THEN stop_interaction(self)
                    ELSE self
    IN  IF ~activate /\ ~finish /\ str_in(stop_keyword, t) /\ ~self.recording
        THEN [self |-> self, result |-> FALSE]
        ELSE IF after.recording
             THEN [self |-> [after EXCEPT !.interaction_transcript = @ \o <<" ">> \o t],
                   result |-> TRUE]
             ELSE [self |-> after, result |-> TRUE]

\* variant of process_result whose end branch does not test self.recording
process_result_end_when_idle(self, t) ==
    LET activate == str_in(activation_keyword, t) /\ ~self.recording
        finish   == str_in(end_keyword, t)
        after    == IF activate THEN start_interaction(self)
                    ELSE IF finish THEN stop_interaction(self)
                    ELSE self
    IN  IF ~activate /\ ~finish /\ str_in(stop_keyword, t)
        THEN [self |-> self, result |-> FALSE]
        ELSE IF after.recording
             THEN [self |-> [after EXCEPT !.interaction_transcript = @ \o <<" ">> \o t],
                   result |-> TRUE]
             ELSE [self |-> after, result |-> TRUE]

\* variant of process_result whose stop branch flushes an open interaction
process_result_stop_flushes(self, t) ==
    LET activate == str_in(activation_keyword, t) /\ ~self.recording
        finish   == str_in(end_keyword, t) /\ self.recording
        after    == IF activate THEN start_interaction(self)
                    ELSE IF finish THEN stop_interaction(self)
                    ELSE self
    IN  IF ~activate /\ ~finish /\ str_in(stop_keyword, t)
        THEN [self |-> IF self.recording THEN stop_interaction(self) ELSE self,
              result |-> FALSE]
        ELSE IF after.recording
             THEN [self |-> [after EXCEPT !.interaction_transcript = @ \o <<" ">> \o t],
                   result |-> TRUE]
             ELSE [self |-> after, result |-> TRUE]

\* process_result(transcript): the if / elif / elif chain, then the separate
\* `if self.recording` append, then return True
process_result(self, t) ==
    LET activate == str_in(activation_keyword, t) /\ ~self.recording
        finish   == str_in(end_keyword, t) /\ self.recording
        after    == IF activate THEN start_interaction(self)
                    ELSE IF finish THEN stop_interaction(self)
                    ELSE self
    IN  IF ~activate /\ ~finish /\ str_in(stop_keyword, t)
        THEN [self |-> self, result |-> FALSE]
        ELSE IF after.recording
             THEN [self |-> [after EXCEPT !.interaction_transcript = @ \o <<" ">> \o t],
                   result |-> TRUE]
             ELSE [self |-> after, result |-> TRUE]

----------------------------------------------------------------------------
(* Recognised fragments: the empty fragment, plain words, and up to          *)
(* MaxPhrases distinct key phrases joined by single spaces                   *)

KeyPhrases == {activation_keyword, end_keyword, stop_keyword}

PlainWords == { <<"b","u","i","l","d">>, <<"t","h","e">>, <<"t","h","i","n","g">> }

\* the sequences of at most n distinct key phrases
RECURSIVE PhraseSeqs(_)
PhraseSeqs(n) ==
    IF n = 0 THEN {<<>>}
    ELSE LET shorter == PhraseSeqs(n - 1)
         IN  shorter \cup
             UNION { {Append(ks, k) : k \in KeyPhrases \ {ks[i] : i \in 1..Len(ks)}} :
                     ks \in shorter }

\* the fragments of fs joined by single spaces
RECURSIVE JoinSpace(_)
JoinSpace(fs) ==
    IF fs = <<>> THEN <<>>
    ELSE IF Len(fs) = 1 THEN fs[1]
    ELSE fs[1] \o <<" ">> \o JoinSpace(Tail(fs))

PhraseTexts(n) == {JoinSpace(ks) : ks \in PhraseSeqs(n)}

Fragments == PhraseTexts(MaxPhrases) \cup PlainWords

----------------------------------------------------------------------------
(* The consumer loop of continuous_listen feeding process_result *)

\* variant of the loop's exit test that never breaks
keeps_listening_always(result) == TRUE

\* `if not continue_listening: break`: the loop goes on exactly when
\* process_result returned True
keeps_listening(result) == result

InitVR ==
    /\ pc = "done"
    /\ prompt = <<>>
    /\ agent_to_run = None
    /\ agent_keyword = NoKeyword
    /\ configuration = [working_directory |-> None]
    /\ ITERATION_START_TIME = None
    /\ last_op = "init"
    /\ memo_set = FALSE
    /\ memo_prompt = <<>>
    /\ memo_agent = None
    /\ VRIdle
    /\ LoopIdle
    /\ StreamIdle

\* one pass of the loop body for a finalised result with text t:
\*   continue_listening = self.process_result(text); if not ...: break
ProcessResult ==
    \E t \in Fragments :
        LET self == [recording |-> recording,
                     interaction_transcript |-> interaction_transcript,
                     processed |-> <<>>]
            r == process_result(self, t)
        IN  /\ listening
            /\ n_process_command < MaxInteractions
            /\ (r.self.interaction_transcript # interaction_transcript
                    /\ r.self.recording)
                  => (recording => Len(between) + 1 < MaxBuffered)
            /\ transcript' = t
            /\ recording' = r.self.recording
            /\ interaction_transcript' = r.self.interaction_transcript
            /\ processed' = r.self.processed
            /\ continue_listening' = r.result
            /\ listening' = keeps_listening(r.result)
            /\ n_process_command' = n_process_command + Len(r.self.processed)
            /\ n_rec_to_idle' = n_rec_to_idle
                                  + (IF recording /\ ~recording' THEN 1 ELSE 0)
            /\ was_recording' = recording
            /\ was_transcript' = interaction_transcript
            /\ between' = IF ~recording THEN <<>>
                          ELSE IF recording' THEN Append(between, t)
                          ELSE between
            /\ last_op' = "process_result"
            /\ UNCHANGED <<pc, prompt, agent_to_run, agent_keyword, configuration,
                           ITERATION_START_TIME, memo_set, memo_prompt, memo_agent>>
            /\ UNCHANGED <<loop_vars, stream_vars>>

NextVR == ProcessResult

SpecVR == InitVR /\ [][NextVR]_vars

----------------------------------------------------------------------------
(* The frame queue of continuous_listen: the audio callback puts frames on  *)
(* self.q from the sound device's thread, the `while True` loop gets them    *)

\* queue.Queue.put on an unbounded queue: the item goes to the back, no wait
queue_put(queue, item) == Append(queue, item)

\* variant of get that takes the newest item
queue_get_lifo(queue) ==
    [item |-> queue[Len(queue)], rest |-> SubSeq(queue, 1, Len(queue) - 1)]

\* queue.Queue.get: the item at the front (the caller waits while it is empty)
queue_get(queue) == [item |-> Head(queue), rest |-> Tail(queue)]

\* texts of the finalised results the recogniser hands to process_result
StreamTexts == KeyPhrases

InitStream ==
    /\ pc = "done"
    /\ prompt = <<>>
    /\ agent_to_run = None
    /\ agent_keyword = NoKeyword
    /\ configuration = [working_directory |-> None]
    /\ ITERATION_START_TIME = None
    /\ last_op = "init"
    /\ memo_set = FALSE
    /\ memo_prompt = <<>>
    /\ memo_agent = None
    /\ VRIdle
    /\ LoopIdle
    /\ StreamIdle

StreamFrame ==
    UNCHANGED <<pc, prompt, agent_to_run, agent_keyword, configuration,
                ITERATION_START_TIME, memo_set, memo_prompt, memo_agent, loop_vars>>

\* callback(indata, ...): self.q.put(bytes(indata)); frames are numbered in
\* the order the device delivers them
Callback ==
    /\ pushed < MaxFrames
    /\ pushed' = pushed + 1
    /\ q' = queue_put(q, pushed + 1)
    /\ last_op' = "callback"
    /\ UNCHANGED <<consumed, data, vr_vars>>
    /\ StreamFrame

\* data = self.q.get(): blocks while the queue is empty
QueueGet ==
    /\ listening
    /\ data = <<>>
    /\ q # <<>>
    /\ LET got == queue_get(q)
       IN  /\ data' = <<got.item>>
           /\ q' = got.rest
           /\ consumed' = Append(consumed, got.item)
    /\ last_op' = "get"
    /\ UNCHANGED <<pushed, vr_vars>>
    /\ StreamFrame

\* rec.AcceptWaveform(data) is false: no finalised result, back to q.get()
AcceptPartial ==
    /\ listening
    /\ data # <<>>
    /\ data' = <<>>
    /\ last_op' = "accept"
    /\ UNCHANGED <<q, pushed, consumed, vr_vars>>
    /\ StreamFrame

\* rec.AcceptWaveform(data) is true: the text of rec.Result() goes through
\* process_result, and the loop breaks when that returns False
AcceptResult ==
    \E t \in StreamTexts :
        LET self == [recording |-> recording,
                     interaction_transcript |-> interaction_transcript,
                     processed |-> <<>>]
            r == process_result(self, t)
        IN  /\ listening
            /\ data # <<>>
            /\ data' = <<>>
            /\ transcript' = t
            /\ recording' = r.self.recording
            /\ interaction_transcript' = r.self.interaction_transcript
            /\ processed' = r.self.processed
            /\ continue_listening' = r.result
            /\ listening' = keeps_listening(r.result)
            /\ n_process_command' = n_process_command + Len(r.self.processed)
            /\ n_rec_to_idle' = n_rec_to_idle
                                  + (IF recording /\ ~recording' THEN 1 ELSE 0)
            /\ was_recording' = recording
            /\ was_transcript' = interaction_transcript
            /\ between' = IF ~recording THEN <<>>
                          ELSE IF recording' THEN Append(between, t)
                          ELSE between
            /\ last_op' = "process_result"
            /\ UNCHANGED <<q, pushed, consumed>>
            /\ StreamFrame

\* the consumer thread: the body of the `while True` loop
Consumer == QueueGet \/ AcceptPartial \/ AcceptResult

NextStream == Callback \/ QueueGet \/ AcceptPartial \/ AcceptResult

SpecStream == InitStream /\ [][NextStream]_vars

\* the consumer thread keeps being scheduled
SpecStreamFair == SpecStream /\ WF_vars(Consumer)

----------------------------------------------------------------------------
(* main.py: module-level configuration load *)

\* CONFIG_FILE is absent, holds text that is not JSON, or holds a JSON document
ConfigFiles ==
    { [kind |-> "absent", doc |-> None], [kind |-> "malformed", doc |-> None] }
        \cup { [kind |-> "json", doc |-> c] : c \in Configurations }

DefaultConfiguration == [working_directory |-> None]

\* the try / except FileNotFoundError block: json.load of an existing file; a
\* missing file gives the default, which is written back; any other exception
\* (json.JSONDecodeError for text that is not JSON) is not caught
load_configuration(file) ==
    IF file.kind = "json"
    THEN [configuration |-> file.doc, config_file |-> file, crashed |-> FALSE]
    ELSE IF file.kind = "absent"
    THEN [configuration |-> DefaultConfiguration,
          config_file |-> [kind |-> "json", doc |-> DefaultConfiguration],
          crashed |-> FALSE]
    ELSE [configuration |-> "unbound", config_file |-> file, crashed |-> TRUE]

----------------------------------------------------------------------------
(* main.py: the chunked loop and the activation callback *)

ACTIVATION_KEYWORD == <<"A","d","a">>

Whitespace == {" ", "\t", "\n"}

\* s.strip()
str_strip(s) ==
    IF \A i \in 1..Len(s) : s[i] \in Whitespace
    THEN <<>>
    ELSE LET a == CHOOSE i \in 1..Len(s) :
                      s[i] \notin Whitespace /\ \A j \in 1..(i - 1) : s[j] \in Whitespace
             b == CHOOSE i \in 1..Len(s) :
                      s[i] \notin Whitespace /\ \A j \in (i + 1)..Len(s) : s[j] \in Whitespace
         IN  SubSeq(s, a, b)

text_after_keyword(t, keyword) ==
    LET keyword_position == str_find(str_lower(t), str_lower(keyword))
    IN  IF keyword_position = -1
        THEN <<>>
        ELSE str_strip(SubSeq(t, keyword_position + Len(keyword) + 1, Len(t)))

\* the outcome of a dispatch that calls no handler
NoDispatch ==
    [routed |-> FALSE, prompt |-> <<>>, agent_to_run |-> None,
     agent_keyword |-> NoKeyword, calls |-> <<>>]

\* on_activation_keyword_detected(transcript), up to the call agent_to_run(prompt)
on_activation_keyword_detected(t) ==
    LET p == text_after_keyword(t, ACTIVATION_KEYWORD)
        r == get_first_keyword_in_prompt(p)
    IN  [routed |-> TRUE, prompt |-> p, agent_to_run |-> r.agent,
         agent_keyword |-> r.keyword,
         calls |-> IF r.agent = None THEN <<>>
                   ELSE <<[agent |-> r.agent, argument |-> p]>>]

\* variant of the loop's dispatch that routes every transcript as it is
loop_dispatch_unconditional(activation, t) ==
    LET r == get_first_keyword_in_prompt(t)
    IN  [routed |-> TRUE, prompt |-> t, agent_to_run |-> r.agent,
         agent_keyword |-> r.keyword,
         calls |-> IF r.agent = None THEN <<>>
                   ELSE <<[agent |-> r.agent, argument |-> t]>>]

\* variant of the loop's dispatch that hands the whole transcript to the handler
loop_dispatch_whole_transcript(activation, t) ==
    IF str_in(str_lower(activation), str_lower(t))
    THEN LET d == on_activation_keyword_detected(t)
         IN  [d EXCEPT !.calls = IF d.agent_to_run = None THEN <<>>
                                 ELSE <<[agent |-> d.agent_to_run, argument |-> t]>>]
    ELSE NoDispatch

\* if activation_keyword.lower() in transcript.lower(): on_keywords(transcript)
loop_dispatch(activation, t) ==
    IF str_in(str_lower(activation), str_lower(t))
    THEN on_activation_keyword_detected(t)
    ELSE NoDispatch

\* what the transcription service does with one audio file
Raises == [raises |-> TRUE, transcript |-> <<>>]

\* variant of transcribe_audio_file without the try / except
transcribe_audio_file_uncaught(response) ==
    IF response.raises
    THEN [transcript |-> <<>>, propagated |-> TRUE]
    ELSE [transcript |-> response.transcript, propagated |-> FALSE]

\* transcribe_audio_file(file_path): the transcript of the response, and ""
\* when anything in the try block raises
transcribe_audio_file(response) ==
    IF response.raises
    THEN [transcript |-> <<>>, propagated |-> FALSE]
    ELSE [transcript |-> response.transcript, propagated |-> FALSE]

\* variant of the recording that does not wait for the device
sd_wait_skipped(active) == active

\* sd.wait(): blocks until the recording started by sd.rec() is complete
sd_wait(active) == FALSE

\* json.dumps(contents, indent=2): the JSON text of a document
json_dumps(doc) == [kind |-> "json", doc |-> doc]

\* json.loads(text): the document of a JSON text; text that is not JSON
\* raises json.JSONDecodeError
json_loads(text) ==
    IF text.kind = "json" THEN [raised |-> FALSE, value |-> text.doc]
    ELSE [raised |-> TRUE, value |-> None]

\* the texts the user can leave in the editor: JSON documents and text that
\* is not JSON
EditedTexts ==
    { [kind |-> "malformed", doc |-> None] }
        \cup { json_dumps(c) : c \in Configurations }

\* editor.edit(contents): writes contents to a scratch file, waits for the
\* editor to close and returns file.read() of a file opened in mode "r", a str
editor_edit(contents, user_text) == [type |-> "str", text |-> user_text]

\* value.decode(): defined on bytes; a str has no such attribute
\* (AttributeError)
decode(value) ==
    IF value.type = "bytes" THEN [raised |-> FALSE, text |-> value.text]
    ELSE [raised |-> TRUE, text |-> value.text]

\* human_file_json_prompt(contents)
human_file_json_prompt(contents, user_text) ==
    LET edited_contents == editor_edit(json_dumps(contents), user_text)
        decoded == decode(edited_contents)
    IN  IF decoded.raised THEN [raised |-> TRUE, value |-> None]
        ELSE json_loads(decoded.text)

\* variant of the workflow in which the edited text is parsed as it is and
\* the global is rebound to the edited document
configure_assistant_workflow_rebinding(conf, file, user_text, summary_raises) ==
    LET updated_config == json_loads(user_text)
    IN  IF updated_config.raised
        THEN [configuration |-> conf, config_file |-> file, raised |-> TRUE]
        ELSE [configuration |-> updated_config.value,
              config_file |-> json_dumps(updated_config.value),
              raised |-> summary_raises]

\* configure_assistant_workflow(prompt) from `global configuration` on:
\* the edit, the json.dump of the result to CONFIG_FILE, and the summary of
\* the difference (whose remote call may raise); `configuration` is read, never
\* assigned
configure_assistant_workflow(conf, file, user_text, summary_raises) ==
    LET updated_config == human_file_json_prompt(conf, user_text)
    IN  IF updated_config.raised
        THEN [configuration |-> conf, config_file |-> file, raised |-> TRUE]
        ELSE [configuration |-> conf,
              config_file |-> json_dumps(updated_config.value),
              raised |-> summary_raises]

\* the handlers whose steps are modelled one by one
ModelledHandlers == {"configure_assistant_workflow"}

\* variant in which no handler ends in sys.exit()
ExitingHandlers_none == {}

\* the handlers that end in sys.exit()
ExitingHandlers == {"end_conversation_workflow"}

----------------------------------------------------------------------------
(* Chunk transcripts: concatenations of the activation keyword, spaces and  *)
(* routed keywords                                                          *)

LoopPieces == { <<"A","d","a">>, <<"A","D","A">>, <<" ">>,
                <<"h","e","l","l","o">>, <<"e","x","i","t">>,
                <<"c","o","n","f","i","g","u","r","e">> }

ChunkTranscripts == TextsFrom(LoopPieces, MaxLoopPieces)

Responses == {Raises} \cup {[raises |-> FALSE, transcript |-> t] : t \in ChunkTranscripts}

----------------------------------------------------------------------------
(* The process of main.py: startup, then personal_ai_assistant_loop *)

InitLoop ==
    /\ pc = "done"
    /\ prompt = <<>>
    /\ agent_to_run = None
    /\ agent_keyword = NoKeyword
    /\ configuration = "unbound"
    /\ ITERATION_START_TIME = None
    /\ last_op = "init"
    /\ memo_set = FALSE
    /\ memo_prompt = <<>>
    /\ memo_agent = None
    /\ VRIdle
    /\ StreamIdle
    /\ lpc = "startup"
    /\ iteration = 0
    /\ audio_active = FALSE
    /\ files = {}
    /\ chunk_transcript = <<>>
    /\ transcribe_failed = FALSE
    /\ handler_running = None
    /\ handler_calls = <<>>
    /\ handler_raised = FALSE
    /\ steps = <<>>
    /\ config_file \in ConfigFiles
    /\ config_file_at_start = config_file
    /\ edited = [kind |-> "absent", doc |-> None]

LoopFrame == UNCHANGED <<pc, memo_set, memo_prompt, memo_agent, vr_vars, stream_vars>>

\* the module-level try / except that binds `configuration`
Startup ==
    LET r == load_configuration(config_file)
    IN  /\ lpc = "startup"
        /\ configuration' = r.configuration
        /\ config_file' = r.config_file
        /\ lpc' = IF r.crashed THEN "crashed" ELSE "record"
        /\ last_op' = "startup"
        /\ UNCHANGED <<prompt, agent_to_run, agent_keyword, ITERATION_START_TIME,
                       iteration, audio_active, files, chunk_transcript,
                       transcribe_failed, handler_running, handler_calls,
                       handler_raised, steps, config_file_at_start, edited>>
        /\ LoopFrame

\* record_audio up to sd.rec(): track_interaction_time(), then the device
\* starts recording
RecordStart ==
    /\ lpc = "record"
    /\ iteration < MaxIterations
    /\ iteration' = iteration + 1
    /\ ITERATION_START_TIME' = track_interaction_time(ITERATION_START_TIME)
    /\ audio_active' = TRUE
    /\ steps' = <<"record">>
    /\ chunk_transcript' = <<>>
    /\ transcribe_failed' = FALSE
    /\ handler_calls' = <<>>
    /\ handler_raised' = FALSE
    /\ prompt' = <<>>
    /\ agent_to_run' = None
    /\ agent_keyword' = NoKeyword
    /\ lpc' = "wait"
    /\ last_op' = "record_start"
    /\ UNCHANGED <<configuration, files, handler_running, config_file,
                   config_file_at_start, edited>>
    /\ LoopFrame

\* record_audio from sd.wait() on: the recording is complete, the timing
\* global is stamped
RecordWait ==
    /\ lpc = "wait"
    /\ audio_active' = sd_wait(audio_active)
    /\ ITERATION_START_TIME' = record_audio(ITERATION_START_TIME)
    /\ lpc' = "save"
    /\ last_op' = "record_wait"
    /\ UNCHANGED <<prompt, agent_to_run, agent_keyword, configuration, iteration,
                   files, chunk_transcript, transcribe_failed, handler_running,
                   handler_calls, handler_raised, steps, config_file,
                   config_file_at_start, edited>>
    /\ LoopFrame

\* save_audio_file(recording, filename=filename)
SaveAudioFile ==
    /\ lpc = "save"
    /\ files' = files \cup {iteration}
    /\ steps' = Append(steps, "save")
    /\ lpc' = "transcribe"
    /\ last_op' = "save_audio_file"
    /\ UNCHANGED <<prompt, agent_to_run, agent_keyword, configuration,
                   ITERATION_START_TIME, iteration, audio_active, chunk_transcript,
                   transcribe_failed, handler_running, handler_calls,
                   handler_raised, config_file, config_file_at_start, edited>>
    /\ LoopFrame

\* transcript = transcribe_audio_file(filename)
Transcribe ==
    \E response \in Responses :
        LET r == transcribe_audio_file(response)
        IN  /\ lpc = "transcribe"
            /\ chunk_transcript' = r.transcript
            /\ transcribe_failed' = response.raises
            /\ steps' = Append(steps, "transcribe")
            /\ lpc' = IF r.propagated THEN "crashed" ELSE "check"
            /\ last_op' = "transcribe"
            /\ UNCHANGED <<prompt, agent_to_run, agent_keyword, configuration,
                           ITERATION_START_TIME, iteration, audio_active, files,
                           handler_running, handler_calls, handler_raised,
                           config_file, config_file_at_start, edited>>
            /\ LoopFrame

\* the activation test and on_keywords(transcript), up to the handler call
Dispatch ==
    LET d == loop_dispatch(ACTIVATION_KEYWORD, chunk_transcript)
    IN  /\ lpc = "check"
        /\ prompt' = d.prompt
        /\ agent_to_run' = d.agent_to_run
        /\ agent_keyword' = d.agent_keyword
        /\ handler_calls' = handler_calls \o d.calls
        /\ handler_running' = IF d.calls = <<>> THEN None ELSE d.calls[1].agent
        /\ steps' = steps \o (IF d.routed THEN <<"route">> ELSE <<>>)
                          \o (IF d.calls = <<>> THEN <<>> ELSE <<"handle">>)
        /\ lpc' = IF d.calls = <<>> THEN "remove" ELSE "handle"
        /\ last_op' = "dispatch"
        /\ UNCHANGED <<configuration, ITERATION_START_TIME, iteration, audio_active,
                       files, chunk_transcript, transcribe_failed, handler_raised,
                       config_file, config_file_at_start, edited>>
        /\ LoopFrame

HandlerFrame ==
    UNCHANGED <<prompt, agent_to_run, agent_keyword, configuration,
                ITERATION_START_TIME, iteration, audio_active, files,
                chunk_transcript, transcribe_failed, handler_calls, steps,
                config_file, config_file_at_start, edited>>

\* the handler returns to on_activation_keyword_detected and to the loop
HandlerReturns ==
    /\ lpc = "handle"
    /\ handler_running \notin ExitingHandlers \cup ModelledHandlers
    /\ handler_running' = None
    /\ handler_raised' = FALSE
    /\ lpc' = "remove"
    /\ last_op' = "handler_returns"
    /\ HandlerFrame
    /\ LoopFrame

\* the handler raises; nothing between the handler and the top of the module
\* catches the exception
HandlerRaises ==
    /\ lpc = "handle"
    /\ handler_running' = None
    /\ handler_raised' = TRUE
    /\ lpc' = "crashed"
    /\ last_op' = "handler_raises"
    /\ HandlerFrame
    /\ LoopFrame

\* configure_assistant_workflow runs from the edit to its end
ConfigureWorkflow ==
    \E user_text \in EditedTexts, summary_raises \in BOOLEAN :
        LET r == configure_assistant_workflow(configuration, config_file,
                                              user_text, summary_raises)
        IN  /\ lpc = "handle"
            /\ handler_running = "configure_assistant_workflow"
            /\ edited' = user_text
            /\ configuration' = r.configuration
            /\ config_file' = r.config_file
            /\ handler_running' = None
            /\ handler_raised' = r.raised
            /\ lpc' = IF r.raised THEN "crashed" ELSE "remove"
            /\ last_op' = "configure"
            /\ UNCHANGED <<prompt, agent_to_run, agent_keyword,
                           ITERATION_START_TIME, iteration, audio_active, files,
                           chunk_transcript, transcribe_failed, handler_calls,
                           steps, config_file_at_start>>
            /\ LoopFrame

\* end_conversation_workflow reaches sys.exit()
HandlerExits ==
    /\ lpc = "handle"
    /\ handler_running \in ExitingHandlers
    /\ handler_running' = None
    /\ handler_raised' = FALSE
    /\ lpc' = "exited"
    /\ last_op' = "handler_exits"
    /\ HandlerFrame
    /\ LoopFrame

\* os.remove(filename), then back to the top of the loop
RemoveFile ==
    /\ lpc = "remove"
    /\ files' = files \ {iteration}
    /\ steps' = Append(steps, "remove")
    /\ lpc' = "record"
    /\ last_op' = "remove"
    /\ UNCHANGED <<prompt, agent_to_run, agent_keyword, configuration,
                   ITERATION_START_TIME, iteration, audio_active, chunk_transcript,
                   transcribe_failed, handler_running, handler_calls,
                   handler_raised, config_file, config_file_at_start, edited>>
    /\ LoopFrame

NextLoop ==
    \/ Startup
    \/ RecordStart
    \/ RecordWait
    \/ SaveAudioFile
    \/ Transcribe
    \/ Dispatch
    \/ HandlerReturns
    \/ HandlerRaises
    \/ HandlerExits
    \/ RemoveFile
    \/ ConfigureWorkflow

SpecLoop == InitLoop /\ [][NextLoop]_vars

----------------------------------------------------------------------------
(* Properties of the keyword router *)

\* the keyword groups in the order the table declares them
DeclaredGroups == <<
    [alternatives |-> { <<"c","o","n","f","i","g","u","r","e">>,
                        <<"c","o","n","f","i","g","u","r","a","t","i","o","n">> },
     handler |-> "configure_assistant_workflow"],
    [alternatives |-> { <<"e","x","a","m","p","l","e"," ","c","o","d","e">> },
     handler |-> "example_code_workflow"],
    [alternatives |-> { <<"v","i","e","w"," ","c","o","m","p","o","n","e","n","t">> },
     handler |-> "image_to_vue_component_workflow"],
    [alternatives |-> { <<"b","a","s","h">>, <<"b","r","o","w","s","e","r">> },
     handler |-> "run_bash_command_workflow"],
    [alternatives |-> { <<"s","h","e","l","l">> },
     handler |-> "shell_command_workflow"],
    [alternatives |-> { <<"q","u","e","s","t","i","o","n">> },
     handler |-> "question_answer_workflow"],
    [alternatives |-> { <<"h","e","l","l","o">>, <<"h","e","y">>, <<"h","i">> },
     handler |-> "soft_talk_workflow"],
    [alternatives |-> { <<"e","x","i","t">> },
     handler |-> "end_conversation_workflow"] >>

QuestionGroup == 6

\* kw occurs in t, each letter in either case
OccursAnyCase(kw, t) ==
    \E i \in 0..(Len(t) - Len(kw)) :
        \A j \in 1..Len(kw) : t[i + j] = kw[j] \/ t[i + j] = upper_char(kw[j])

\* the groups one of whose alternatives occurs in t, in any mix of case
GroupsOccurring(t) ==
    {g \in 1..Len(DeclaredGroups) :
        \E a \in DeclaredGroups[g].alternatives : OccursAnyCase(a, t)}

\* the groups one of whose alternatives is a substring of the lowercased t
GroupsMatching(t) ==
    {g \in 1..Len(DeclaredGroups) :
        \E a \in DeclaredGroups[g].alternatives : str_in(a, str_lower(t))}

Least(S) == CHOOSE x \in S : \A y \in S : x <= y

\* C1: get_first_keyword_in_prompt returns the handler of the first group, in
\* declared order, that has an alternative occurring as a substring of the
\* lowercased prompt, and no handler (None, None) when no group has one.
C1_FirstMatchingGroup ==
    pc = "done" =>
        LET m == GroupsMatching(prompt)
        IN  IF m = {}
            THEN agent_to_run = None /\ agent_keyword = NoKeyword
            ELSE /\ agent_to_run = DeclaredGroups[Least(m)].handler
                 /\ agent_keyword \in DeclaredGroups[Least(m)].alternatives

\* "hi" inside "history" selects the greeting handler
C1_Witness ==
    /\ pc = "done"
    /\ prompt = <<"h","i","s","t","o","r","y">>
    /\ agent_to_run = "soft_talk_workflow"

\* C2 as stated: a text containing both "hello" and "question" is routed to
\* the hello/hey/hi handler.
C2_HelloBeatsQuestion ==
    (/\ pc = "done"
     /\ OccursAnyCase(<<"h","e","l","l","o">>, prompt)
     /\ OccursAnyCase(<<"q","u","e","s","t","i","o","n">>, prompt))
        => agent_to_run = "soft_talk_workflow"

\* C2 (amended): when keywords of exactly two groups occur in the routed text,
\* the group declared earlier wins; a text containing both "hello" and
\* "question" and no keyword of a group declared before them is routed to the
\* question handler, because the question group is declared before the
\* hello/hey/hi group.
C2_EarlierGroupWins ==
    pc = "done" =>
        LET m == GroupsMatching(prompt)
        IN  /\ Cardinality(m) = 2
                  => agent_to_run = DeclaredGroups[Least(m)].handler
            /\ (/\ OccursAnyCase(<<"h","e","l","l","o">>, prompt)
                /\ OccursAnyCase(<<"q","u","e","s","t","i","o","n">>, prompt)
                /\ \A g \in m : g >= QuestionGroup)
                   => agent_to_run = "question_answer_workflow"

C2_Witness ==
    /\ pc = "done"
    /\ prompt = <<"h","e","l","l","o","q","u","e","s","t","i","o","n">>
    /\ agent_to_run = "question_answer_workflow"

\* C3: when keywords of exactly one group occur in the text, in any mix of
\* upper and lower case, the router returns that group's handler.
C3_SingleGroupAnyCase ==
    pc = "done" =>
        LET occurring == GroupsOccurring(prompt)
        IN  Cardinality(occurring) = 1
                => \A g \in occurring : agent_to_run = DeclaredGroups[g].handler

C3_Witness ==
    /\ pc = "done"
    /\ prompt = <<"Q","u","E","s","T","i","O","n">>
    /\ GroupsOccurring(prompt) = {QuestionGroup}
    /\ agent_to_run = "question_answer_workflow"

\* C4: a routing call leaves the configuration and the timing global as they
\* were, and routing a text that was routed before, with recordings and other
\* routing calls in between, returns the handler it returned before.
C4_RoutingIsPure ==
    [][ last_op' = "route" =>
            /\ configuration' = configuration
            /\ ITERATION_START_TIME' = ITERATION_START_TIME
            /\ (memo_set /\ prompt' = memo_prompt) => agent_to_run' = memo_agent
      ]_vars

\* the remembered text is routed again after a recording changed the timing
\* global
C4_Witness ==
    /\ memo_set
    /\ last_op = "route"
    /\ prompt = memo_prompt
    /\ ITERATION_START_TIME # None
    /\ agent_to_run = "soft_talk_workflow"

----------------------------------------------------------------------------
(* Properties of the utterance state machine *)

Stepped == last_op = "process_result"

\* C5: when the machine is idle and the fragment contains the activation
\* phrase, the machine is recording after the step, the interaction buffer is
\* empty (the activation fragment is not appended), and the call returns True.
C5_ActivationStartsEmpty ==
    (Stepped /\ ~was_recording /\ str_in(activation_keyword, transcript))
        => /\ recording
           /\ interaction_transcript = <<>>
           /\ continue_listening

\* C6: while recording, after fragments f1..fn without end or stop phrase have
\* been fed since recording began, the buffer is f1..fn joined by single
\* spaces, with no leading or trailing separator.
C6_BufferIsJoin ==
    (Stepped /\ recording /\ between # <<>>)
        => interaction_transcript = JoinSpace(between)

\* C7: when the machine is recording and the fragment contains the end phrase,
\* process_command is called exactly once, with the buffer as it was when the
\* fragment arrived, and the machine is then idle with an empty buffer; the
\* number of process_command calls equals the number of recording-to-idle
\* transitions.
C7_EndFlushesOnce ==
    /\ (Stepped /\ was_recording /\ str_in(end_keyword, transcript))
          => /\ processed = <<was_transcript>>
             /\ ~recording
             /\ interaction_transcript = <<>>
    /\ n_process_command = n_rec_to_idle

C7_Witness ==
    /\ Stepped
    /\ was_recording
    /\ str_in(end_keyword, transcript)
    /\ between = << <<"b","u","i","l","d">>, <<"t","h","e">> >>
    /\ processed = <<was_transcript>>
    /\ n_process_command = 1
    /\ ~recording

\* C8: the text handed to process_command is exactly the fragments received
\* after the activation fragment and before the end fragment, in arrival
\* order; neither the activation fragment nor the end fragment is part of it.
C8_CommandIsFragmentsBetween ==
    (Stepped /\ processed # <<>>)
        => processed = <<JoinSpace(between)>>

\* C9 as stated: in every state, a fragment that contains the stop phrase
\* makes process_result return False.
C9_StopAlwaysTerminates ==
    (Stepped /\ str_in(stop_keyword, transcript)) => ~continue_listening

\* C9 (amended): a fragment that contains the stop phrase makes process_result
\* return False, in the idle state and in the recording state alike, unless
\* the fragment also contains the activation phrase while idle or the end
\* phrase while recording.
C9_StopTerminatesUnlessPreempted ==
    (/\ Stepped
     /\ str_in(stop_keyword, transcript)
     /\ ~(~was_recording /\ str_in(activation_keyword, transcript))
     /\ ~(was_recording /\ str_in(end_keyword, transcript)))
        => ~continue_listening

C9_Witness ==
    /\ Stepped
    /\ was_recording
    /\ str_in(stop_keyword, transcript)
    /\ ~continue_listening

\* C10: process_result picks exactly one transition, in the priority order
\* activation while idle (start recording), end while recording (flush), stop
\* (terminate), append while recording; otherwise it does nothing.
C10_OneTransitionByPriority ==
    Stepped =>
        IF ~was_recording /\ str_in(activation_keyword, transcript)
        THEN /\ recording /\ continue_listening /\ processed = <<>>
             /\ interaction_transcript = was_transcript
        ELSE IF was_recording /\ str_in(end_keyword, transcript)
        THEN /\ ~recording /\ continue_listening
             /\ processed = <<was_transcript>>
             /\ interaction_transcript = <<>>
        ELSE IF str_in(stop_keyword, transcript)
        THEN /\ ~continue_listening /\ processed = <<>>
             /\ recording = was_recording
             /\ interaction_transcript = was_transcript
        ELSE IF was_recording
        THEN /\ recording /\ continue_listening /\ processed = <<>>
             /\ interaction_transcript = was_transcript \o <<" ">> \o transcript
        ELSE /\ ~recording /\ continue_listening /\ processed = <<>>
             /\ interaction_transcript = was_transcript

\* C11: when the machine is idle and the fragment contains none of the
\* activation, end and stop phrases, or contains the end phrase without the
\* activation and stop phrases, process_result leaves the state and the buffer
\* unchanged, does not call process_command, and returns True.
C11_IdleNoKeywordIsNoOp ==
    (/\ Stepped
     /\ ~was_recording
     /\ ~str_in(activation_keyword, transcript)
     /\ ~str_in(stop_keyword, transcript))
        => /\ ~recording
           /\ interaction_transcript = was_transcript
           /\ processed = <<>>
           /\ continue_listening

\* the end phrase fed to the idle machine
C11_Witness ==
    /\ Stepped
    /\ ~was_recording
    /\ transcript = end_keyword
    /\ ~recording
    /\ interaction_transcript = <<>>
    /\ processed = <<>>
    /\ continue_listening

\* C12: the machine starts idle with an empty buffer, and in every reachable
\* state the buffer is empty whenever the machine is idle.
C12_IdleBufferEmpty ==
    /\ last_op = "init" => (~recording /\ interaction_transcript = <<>>)
    /\ ~recording => interaction_transcript = <<>>

\* idle again after an interaction whose buffer held fragments
C12_Witness ==
    /\ Stepped
    /\ was_recording
    /\ was_transcript # <<>>
    /\ ~recording
    /\ interaction_transcript = <<>>

----------------------------------------------------------------------------
(* Properties of startup and of the chunked loop *)

\* 0-based position of the first occurrence of kw in t, each letter in either
\* case
FirstOccurrenceAnyCase(kw, t) ==
    Least({i \in 0..(Len(t) - Len(kw)) :
              \A j \in 1..Len(kw) : t[i + j] = kw[j] \/ t[i + j] = upper_char(kw[j])})

\* s without its leading and trailing whitespace
Trimmed(s) ==
    LET visible == {i \in 1..Len(s) : s[i] \notin Whitespace}
    IN  IF visible = {} THEN <<>>
        ELSE SubSeq(s, Least(visible), CHOOSE x \in visible : \A y \in visible : y <= x)

ada == <<"a","d","a">>

\* the text that follows the first occurrence of the activation keyword in t
CommandText(t) ==
    Trimmed(SubSeq(t, FirstOccurrenceAnyCase(ada, t) + Len(ada) + 1, Len(t)))

IsPrefix(a, b) == Len(a) <= Len(b) /\ SubSeq(b, 1, Len(a)) = a

\* C13: when the transcription of an iteration raises, the failure is caught:
\* the transcript is empty, no handler is invoked in that iteration, the
\* process does not crash, and at the top of the loop the temporary audio file
\* of the iteration is gone.
C13_TranscriptionFailureIsContained ==
    transcribe_failed =>
        /\ chunk_transcript = <<>>
        /\ handler_calls = <<>>
        /\ handler_running = None
        /\ lpc \in {"check", "remove", "record"}
        /\ lpc = "record" => iteration \notin files

\* back at the top of the loop after an iteration whose transcription raised
C13_Witness ==
    /\ transcribe_failed
    /\ lpc = "record"
    /\ iteration = 1
    /\ files = {}
    /\ steps = <<"record", "save", "transcribe", "remove">>

\* C14: the temporary audio file of an iteration is deleted in that iteration,
\* also when the handler raises or ends the process: whenever the process is
\* at the top of the loop or has ended, no temporary audio file exists.
C14_TempFileDeletedInIteration ==
    lpc \in {"record", "crashed", "exited"} => files = {}

\* C15: when a handler invoked by the loop raises, the process does not crash.
C15_LoopSurvivesHandlerFailure ==
    handler_raised => lpc # "crashed"

\* C16: in each iteration at most one handler is called, at most once; its
\* argument is the transcript text after the first occurrence, in any case, of
\* the activation keyword, trimmed, and the handler is the one the router
\* selects for that text alone.
C16_OneHandlerWithCommandText ==
    /\ Len(handler_calls) <= 1
    /\ handler_running # None => (handler_calls # <<>> /\ handler_calls[1].agent = handler_running)
    /\ \A k \in 1..Len(handler_calls) :
           /\ OccursAnyCase(ada, chunk_transcript)
           /\ LET command == CommandText(chunk_transcript)
                  matching == GroupsMatching(command)
              IN  /\ handler_calls[k].argument = command
                  /\ matching # {}
                  /\ handler_calls[k].agent = DeclaredGroups[Least(matching)].handler

\* "exit" before the activation keyword does not select the exit handler
C16_Witness ==
    /\ chunk_transcript = <<"e","x","i","t","A","d","a","h","e","l","l","o">>
    /\ handler_calls = <<[agent |-> "soft_talk_workflow",
                          argument |-> <<"h","e","l","l","o">>]>>
    /\ handler_running = "soft_talk_workflow"

\* C17: routing happens and a handler is invoked in an iteration only if the
\* transcript of that iteration contains the activation keyword, in any case.
C17_NoActivationNoHandler ==
    ("route" \in {steps[i] : i \in 1..Len(steps)} \/ handler_calls # <<>>
         \/ handler_running # None)
        => OccursAnyCase(ada, chunk_transcript)

C17_Witness ==
    /\ chunk_transcript = <<"A","D","A"," ","h","e","l","l","o">>
    /\ handler_calls # <<>>
    /\ handler_running = "soft_talk_workflow"

\* C18: at startup a configuration file that is absent or malformed leaves the
\* process running, the default document in the file, and the in-memory
\* configuration at the default.
C18_MalformedTreatedAsAbsent ==
    (last_op = "startup" /\ config_file_at_start.kind \in {"absent", "malformed"})
        => /\ lpc = "record"
           /\ config_file = [kind |-> "json", doc |-> DefaultConfiguration]
           /\ configuration = DefaultConfiguration

\* C20: the steps of an iteration happen in the order record, save,
\* transcribe, route, handle, remove; the device records only in the record
\* step, and never while a handler is running.
C20_StrictlySequential ==
    /\ ~(audio_active /\ handler_running # None)
    /\ audio_active => lpc = "wait"
    /\ handler_running # None => lpc = "handle"
    /\ \/ IsPrefix(steps, <<"record", "save", "transcribe", "route", "handle", "remove">>)
       \/ IsPrefix(steps, <<"record", "save", "transcribe", "route", "remove">>)
       \/ IsPrefix(steps, <<"record", "save", "transcribe", "remove">>)

\* the second chunk is being recorded, no handler is running
C20_Witness ==
    /\ iteration = 2
    /\ lpc = "wait"
    /\ audio_active
    /\ handler_running = None
    /\ steps = <<"record">>

----------------------------------------------------------------------------
(* Properties of the frame queue *)

\* the frames 1 .. n in the order the callback put them
PushOrder(n) == [i \in 1..n |-> i]

\* no frame is lost, duplicated or reordered: what the consumer has got,
\* followed by what is still queued, is exactly what was put, in push order
FramesInOrder == consumed \o q = PushOrder(pushed)

\* C19: under every interleaving of the callback's puts and the consumer's
\* blocking gets, the consumer gets every pushed frame exactly once and in
\* push order: the frames got followed by the frames still queued are always
\* the frames put, in order, and while the loop has not been told to stop
\* every frame put is eventually got.
C19_EveryFrameOnceInOrder ==
    /\ []FramesInOrder
    /\ \A n \in 1..MaxFrames :
           (pushed >= n) ~> (Len(consumed) >= n \/ ~listening)

\* every frame that was put has been got, in push order, and the loop is
\* still listening
C19_Witness ==
    /\ pushed = MaxFrames
    /\ consumed = PushOrder(MaxFrames)
    /\ q = <<>>
    /\ listening
    /\ last_op = "get"

----------------------------------------------------------------------------
(* Properties of the stop phrase *)

\* C23: once process_result has returned False the consumer loop has stopped:
\* process_result is not called again, no frame is taken from the queue or
\* processed, whether it was queued before or pushed afterwards, and so False
\* is returned at most once in a run.
C23_StopEndsTheLoop ==
    [][~continue_listening =>
          /\ last_op' \notin {"get", "accept", "process_result"}
          /\ UNCHANGED <<consumed, data, vr_vars>>]_vars

\* the loop was stopped with a frame still queued, and a frame was pushed
\* after that
C23_Witness ==
    /\ ~continue_listening
    /\ last_op = "callback"
    /\ Len(q) >= 2
    /\ consumed # <<>>

\* C24: when process_result returns False while the machine is recording,
\* process_command is not called, the stop fragment is not appended, and the
\* recording flag and the buffer stay as they were; nothing runs afterwards,
\* so the buffered fragments are never delivered.
C24_StopWhileRecordingDropsBuffer ==
    (~continue_listening /\ was_recording)
        => /\ processed = <<>>
           /\ recording
           /\ interaction_transcript = was_transcript
           /\ ~listening

C24_Witness ==
    /\ Stepped
    /\ ~continue_listening
    /\ was_recording
    /\ was_transcript # <<>>
    /\ str_in(stop_keyword, transcript)

----------------------------------------------------------------------------
(* Properties of the temporary audio file *)

\* C22: the temporary audio file of an iteration is deleted after the
\* transcription and before the activation test, so no temporary audio file
\* exists while the transcript is checked or a handler is running.
C22_FileDeletedBeforeHandler ==
    /\ lpc \in {"check", "handle"} => files = {}
    /\ handler_running # None => files = {}

----------------------------------------------------------------------------
(* Properties of the configuration *)

\* C21: when the user has edited the configuration into a valid document, the
\* configure workflow completes and CONFIG_FILE holds exactly the edited
\* document.
C21_EditedDocumentReplacesFile ==
    (last_op = "configure" /\ edited.kind = "json")
        => /\ lpc = "remove"
           /\ config_file = edited

\* C25: after startup no step changes the in-memory configuration; the
\* configure workflow, completed or failed, leaves it as it was loaded.
C25_ConfigurationFixedAfterStartup ==
    [][lpc # "startup" => configuration' = configuration]_vars

\* the configure workflow has run on an edit to a different valid document,
\* and the in-memory configuration is still the document loaded at startup
C25_Witness ==
    /\ last_op = "configure"
    /\ edited.kind = "json"
    /\ config_file_at_start.kind = "json"
    /\ configuration = config_file_at_start.doc
    /\ edited.doc # configuration

----------------------------------------------------------------------------
(* Properties of the exit handler *)

ExitGroup == Len(DeclaredGroups)

ExitSelected ==
    /\ handler_calls # <<>>
    /\ handler_calls[1].agent = "end_conversation_workflow"

\* C26: the process exits through routing only from the exit handler; that
\* handler is selected only for a command text that contains "exit" and no
\* keyword of an earlier group; once it is selected the process ends in that
\* handler, no further chunk is recorded and no further handler is invoked.
C26_ExitOnlyThroughExitHandler ==
    /\ [](lpc = "exited" => ExitSelected)
    /\ [](ExitSelected =>
            /\ GroupsMatching(handler_calls[1].argument) = {ExitGroup}
            /\ Len(handler_calls) = 1
            /\ lpc \in {"handle", "exited", "crashed"})
    /\ [][ExitSelected =>
            /\ lpc = "handle"
            /\ lpc' \in {"exited", "crashed"}
            /\ UNCHANGED <<iteration, handler_calls, steps, audio_active>>]_vars

\* the exit handler ended the process in the second iteration
C26_Witness ==
    /\ lpc = "exited"
    /\ ExitSelected
    /\ iteration = 2
    /\ steps = <<"record", "save", "transcribe", "route", "handle">>

====
